---------------------------- MODULE Spec2Model ----------------------------
(***************************************************************************)
(* Behavioural CAPTCHA: the verification state machine of                  *)
(* CompleteCaptchaSystem.tsx (src/unnamed/part_000), the telemetry hook    *)
(* useBehaviorTracking.ts, the challenge widget ChallengeSystem.tsx, the   *)
(* API client captchaApi.ts (src/unnamed/part_005) and the validation      *)
(* server server.js (src/unnamed/part_006; its first version is            *)
(* src/unnamed/part_007).                                                  *)
(*                                                                         *)
(* Conventions.                                                            *)
(*  - One action per handler.  A React handler is modelled together with   *)
(*    the render and the effects its state updates cause: the auto-        *)
(*    validation effect (part_000:91-119) runs after every render in which *)
(*    one of its dependencies changed, and mounting or unmounting          *)
(*    ChallengeSystem follows captchaState (part_000:286-293).             *)
(*  - A click on any button of the page is also a click on the document,   *)
(*    so the hook's handleClick (useBehaviorTracking.ts:68-79, registered  *)
(*    on document at line 117) runs after the button's own handler.        *)
(*  - JavaScript numbers are IEEE-754 doubles.  The risk score and the     *)
(*    confidence are kept as doubles (see "Doubles" below); counts, times  *)
(*    and velocities are integers, for which double arithmetic is exact.   *)
(***************************************************************************)
EXTENDS Integers, Sequences, FiniteSets, TLC

(***************************************************************************)
(* Bounds of the model.                                                    *)
(***************************************************************************)
Epoch == 1000
ShortTick == 3000
LongTick == 20000
MaxTicks == 1
MaxMouse == 10
MaxClicks == 1
MaxKeyDowns == 1
MaxResets == 1
ExtraSamples == 2
MaxLate == 1
MaxKeyPresses == 4
MaxTesterMouse == 8

\* Inputs of the handlers, drawn from small sets.
\* The clock advances by a step that just reaches the minimum session
\* duration, or by one that outlasts every challenge time limit.
TickSizes == {ShortTick, LongTick}
Keys == {"a"}
\* Pointer speed of a mouse event in px/ms: the quotient distance/timeDiff
\* of useBehaviorTracking.ts:34-37 for the displacement the event carries.
Velocities == {2}
\* Values an <input> change event can carry in the typing challenge.
Texts == {"I am human", "i am human"}
\* Buttons of the click-sequence challenge (ChallengeSystem.tsx:186).
Buttons == {1, 2, 3}

(***************************************************************************)
(* Doubles.  A non-negative double below 2 that is a multiple of 2^-56 is  *)
(* the pair <<hi, lo>> standing for (hi * 2^28 + lo) * 2^-56.  Every value *)
(* the scorer handles (0.1, 0.2, 0.3, 0.5, their sums and differences) is  *)
(* of that form.  DRound rounds an exact sum to 53 significant bits, ties  *)
(* to even, as every IEEE-754 operation does.                              *)
(***************************************************************************)
Limb == 2^28

DNorm(hi, lo) == <<hi + (lo \div Limb), lo % Limb>>

\* The spacing of doubles around <<hi, lo>>, in units of 2^-56.
DUlp(d) ==
  IF d[1] >= 2^28 THEN 16
  ELSE IF d[1] >= 2^27 THEN 8
  ELSE IF d[1] >= 2^26 THEN 4
  ELSE IF d[1] >= 2^25 THEN 2
  ELSE 1

DRoundValue(d) ==
  LET u == DUlp(d)
      r == d[2] % u
      down == d[2] - r
      up == down + u
      even == (down \div u) % 2 = 0
      lo == IF 2 * r < u THEN down
            ELSE IF 2 * r > u THEN up
            ELSE IF even THEN down ELSE up
  IN DNorm(d[1], lo)

\* The operators below bind their operands once (x \in {operand}), so that
\* a chain of operations costs one evaluation per operation.
DRound(d) == CHOOSE y \in {DRoundValue(x) : x \in {d}} : TRUE

DLtValue(a, b) == a[1] < b[1] \/ (a[1] = b[1] /\ a[2] < b[2])
DLt(a, b) == \E x \in {<<a, b>>} : DLtValue(x[1], x[2])
DGt(a, b) == DLt(b, a)

\* a + b and a - b (a >= b) as doubles.
DAdd(a, b) ==
  CHOOSE y \in {DRound(DNorm(x[1][1] + x[2][1], x[1][2] + x[2][2])) :
                  x \in {<<a, b>>}} : TRUE
DSubValue(a, b) ==
  IF a[2] >= b[2] THEN DRound(<<a[1] - b[1], a[2] - b[2]>>)
  ELSE DRound(<<a[1] - b[1] - 1, a[2] + Limb - b[2]>>)
DSub(a, b) == CHOOSE y \in {DSubValue(x[1], x[2]) : x \in {<<a, b>>}} : TRUE
\* Math.abs(a - b)
DAbsDiff(a, b) ==
  CHOOSE y \in {IF DLtValue(x[1], x[2]) THEN DSubValue(x[2], x[1])
                ELSE DSubValue(x[1], x[2]) : x \in {<<a, b>>}} : TRUE
\* a * 2 (exact)
DTwice(a) == CHOOSE y \in {DNorm(2 * x[1], 2 * x[2]) : x \in {a}} : TRUE
DMax(a, b) ==
  CHOOSE y \in {IF DLtValue(x[1], x[2]) THEN x[2] ELSE x[1] :
                  x \in {<<a, b>>}} : TRUE
\* Math.min(1, riskScore) written as riskScore
DSecond(a, b) == b

DMin(a, b) ==
  CHOOSE y \in {IF DLtValue(x[1], x[2]) THEN x[1] ELSE x[2] :
                  x \in {<<a, b>>}} : TRUE

\* The doubles the literals of the source denote.
D0 == <<0, 0>>
D0_1 == <<26843545, 161061274>>
D0_2 == <<53687091, 53687092>>
D0_3 == <<80530636, 214748364>>
D0_4 == <<107374182, 107374184>>
D0_5 == <<134217728, 0>>
D0_55 == <<147639500, 214748368>>
D0_6 == <<161061273, 161061272>>
D0_65 == <<174483046, 107374184>>
D0_7 == <<187904819, 53687088>>
D0_8 == <<214748364, 214748368>>
D0_9 == <<241591910, 107374184>>
D1 == <<268435456, 0>>
D1_5 == <<402653184, 0>>


(***************************************************************************)
(* Values.  An optional value (null or an object) is a sequence of length  *)
(* 0 or 1.                                                                  *)
(***************************************************************************)
None == <<>>
Some(x) == <<x>>

\* Program constants.
MotionCap == 50
ClickCap == 20
KeyCap == 30
MinMouseMovements == 10
MinSessionDuration == 3000
MinTotalInteractions == 5
TimerIntervalMs == 1000

\* slice(0, n): the first n elements.
SliceFirst(s, n) == IF Len(s) <= n THEN s ELSE SubSeq(s, 1, n)

\* Array.prototype.slice(-n): the last n elements.
SliceLast(s, n) == IF Len(s) <= n THEN s ELSE SubSeq(s, Len(s) - n + 1, Len(s))

RemoveAt(s, i) == SubSeq(s, 1, i - 1) \o SubSeq(s, i + 1, Len(s))

Abs(x) == IF x < 0 THEN -x ELSE x

\* useState initial value of behaviorData, and the value reset() stores.
EmptyBehaviorData ==
  [mouseMovements |-> <<>>, clicks |-> <<>>, keystrokes |-> <<>>,
   sessionDuration |-> 0]

(***************************************************************************)
(* server.js: the fallback scorer.                                         *)
(***************************************************************************)
RECURSIVE SumVelocity(_)
SumVelocity(ms) ==
  IF ms = <<>> THEN 0 ELSE Head(ms).velocity + SumVelocity(Tail(ms))

\* The reduce of lines 63-65: the sum of |v[i] - v[i-1]| over i > 0.
RECURSIVE SumVariation(_)
SumVariation(ms) ==
  IF Len(ms) < 2 THEN 0
  ELSE Abs(ms[2].velocity - ms[1].velocity) + SumVariation(Tail(ms))

RECURSIVE SumDuration(_)
SumDuration(ks) ==
  IF ks = <<>> THEN 0 ELSE Head(ks).duration + SumDuration(Tail(ks))

\* Math.max(a, b) written as a
IntMaxFirst(a, b) == a

\* Math.max(a, b)
IntMax(a, b) == IF a >= b THEN a ELSE b
IntMin(a, b) == IF a <= b THEN a ELSE b

\* `if (cond) riskScore += delta` and `if (cond) riskScore -= delta`; the
\* score so far is bound once.
PlusIf(riskScore, cond, delta) ==
  CHOOSE y \in {IF cond THEN DAdd(x, delta) ELSE x : x \in {riskScore}} : TRUE
MinusIf(riskScore, cond, delta) ==
  CHOOSE y \in {IF cond THEN DSub(x, delta) ELSE x : x \in {riskScore}} : TRUE

\* Quotients of integers are compared with the thresholds by cross-
\* multiplication; the thresholds are far from any quotient that is not
\* equal to them, so the double comparison gives the same answer.
calculateBasicRiskScore(behaviorData) ==
  LET ms == behaviorData.mouseMovements
      n == Len(ms)
      sumV == SumVelocity(ms)
      sumVar == SumVariation(ms)
      d == IntMax(n - 1, 1)
      cs == Len(behaviorData.clicks)
      sd == behaviorData.sessionDuration
      secs1000 == IntMax(sd, 1000)      \* 1000 * Math.max(sd / 1000, 1)
      ks == behaviorData.keystrokes
      k == Len(ks)
      sumD == SumDuration(ks)
      \* mouse movement analysis (lines 60-76)
      Mouse(r) ==
        PlusIf(PlusIf(MinusIf(MinusIf(PlusIf(r,
          n = 0, D0_3),
          n > 0 /\ 10 * sumV > n /\ sumV < 3 * n, D0_1),
          n > 0 /\ 2 * sumVar > d, D0_1),
          n > 0 /\ (sumV > 10 * n \/ sumV = 0), D0_2),
          n > 0 /\ 10 * sumVar < d, D0_2)
      \* click analysis (lines 79-83)
      Clicks(r) ==
        PlusIf(MinusIf(r,
          cs > 0 /\ 10 * 1000 * cs > secs1000 /\ 1000 * cs < 2 * secs1000, D0_1),
          cs > 0 /\ 1000 * cs > 5 * secs1000, D0_2)
      \* keystroke analysis (lines 86-90)
      Keystrokes(r) ==
        PlusIf(MinusIf(r,
          k > 0 /\ sumD > 50 * k /\ sumD < 300 * k, D0_1),
          k > 0 /\ (sumD < 20 * k \/ sumD > 500 * k), D0_1)
      \* session duration analysis (lines 93-94)
      Session(r) == PlusIf(MinusIf(r, sd > 5000, D0_1), sd < 1000, D0_2)
  IN DMax(D0, DMin(D1, Session(Keystrokes(Clicks(Mouse(D0_5))))))

(***************************************************************************)
(* server.js: POST /api/captcha/validate.  The outcome of the call to the  *)
(* external classifier is an input: the call throws ("error": fetch        *)
(* rejects, the body is no JSON, or the status is not OK), answers without *)
(* success/prediction ("invalid"), or answers with a prediction.  A field  *)
(* risk_score or confidence of a prediction is a number (a double) or is   *)
(* no number (None: missing, null or a string).                            *)
(***************************************************************************)
MLError == [kind |-> "error", is_human |-> FALSE, risk_score |-> D0, confidence |-> D0]
MLInvalid == [kind |-> "invalid", is_human |-> FALSE, risk_score |-> D0, confidence |-> D0]
MLPrediction(h, r, c) ==
  [kind |-> "prediction", is_human |-> h, risk_score |-> r, confidence |-> c]

MLOutcomes ==
  {MLError, MLInvalid,
   MLPrediction(TRUE, D0_2, D0_9),
   MLPrediction(FALSE, D0_65, D0_65),
   MLPrediction(FALSE, D0_9, D0_9)}

\* Any answer of the classifier taken for a prediction.
MLUsedWhenAnswered(ml) == ml.kind # "error"

\* The try block of lines 148-162 ends normally: the answer carries
\* success and prediction (line 152), and the toFixed calls of line 159 do
\* not throw, which they do on a risk_score or confidence that is no number.
MLUsed(ml) ==
  /\ ml.kind = "prediction"
  /\ ml.risk_score # None
  /\ ml.confidence # None

\* riskScore <= 0.6
IsHumanInclusive(riskScore) == ~DGt(riskScore, D0_6)

\* line 169: riskScore < 0.6
IsHuman(riskScore) == DLt(riskScore, D0_6)

\* Math.abs(0.5 - riskScore), not doubled
ConfidenceUnscaled(riskScore) == DAbsDiff(D0_5, riskScore)

\* line 170: Math.abs(0.5 - riskScore) * 2
Confidence(riskScore) == DTwice(DAbsDiff(D0_5, riskScore))

\* riskScore >= 0.7 || confidence < 0.4
NeedsChallengeInclusive(riskScore, confidence) ==
  ~DLt(riskScore, D0_7) \/ DLt(confidence, D0_4)

\* line 175: riskScore > 0.7 || confidence < 0.4
NeedsChallenge(riskScore, confidence) ==
  DGt(riskScore, D0_7) \/ DLt(confidence, D0_4)

ValidateResponse(behaviorData, sid, ml) ==
  LET fallbackScore == calculateBasicRiskScore(behaviorData)
      isHuman == IF MLUsed(ml) THEN ml.is_human ELSE IsHuman(fallbackScore)
      riskScore == IF MLUsed(ml) THEN ml.risk_score ELSE fallbackScore
      confidence == IF MLUsed(ml) THEN ml.confidence
                    ELSE Confidence(fallbackScore)
      method == IF MLUsed(ml) THEN "ml_model" ELSE "fallback_algorithm"
      needsChallenge == NeedsChallenge(riskScore, confidence)
  IN [success |-> TRUE,
      isHuman |-> isHuman,
      riskScore |-> riskScore,
      confidence |-> confidence,
      needsChallenge |-> needsChallenge,
      sessionId |-> sid,
      method |-> method,
      analysis |-> [mouseMovements |-> Len(behaviorData.mouseMovements),
                    clicks |-> Len(behaviorData.clicks),
                    keystrokes |-> Len(behaviorData.keystrokes),
                    sessionDuration |-> behaviorData.sessionDuration],
      mlDetails |-> ml.kind = "prediction"]

(***************************************************************************)
(* The first version of server.js (src/unnamed/part_007): the same scorer  *)
(* and derivations, no classifier, and a result without method and         *)
(* mlDetails (an absent method is the empty string).                       *)
(***************************************************************************)
calculateRiskScore(behaviorData) == calculateBasicRiskScore(behaviorData)

BasicValidateResponse(behaviorData, sid) ==
  LET riskScore == calculateRiskScore(behaviorData)
      isHuman == IsHuman(riskScore)
      confidence == Confidence(riskScore)
      needsChallenge == NeedsChallenge(riskScore, confidence)
  IN [success |-> TRUE,
      isHuman |-> isHuman,
      riskScore |-> riskScore,
      confidence |-> confidence,
      needsChallenge |-> needsChallenge,
      sessionId |-> sid,
      method |-> "",
      analysis |-> [mouseMovements |-> Len(behaviorData.mouseMovements),
                    clicks |-> Len(behaviorData.clicks),
                    keystrokes |-> Len(behaviorData.keystrokes),
                    sessionDuration |-> behaviorData.sessionDuration],
      mlDetails |-> FALSE]

(***************************************************************************)
(* server.js: POST /api/captcha/challenge.                                 *)
(***************************************************************************)
\* `challenges` is an object literal, so challenges[name] also finds what
\* Object.prototype defines: a function or object, which is truthy and
\* whose spread (line 315) adds no field.  An absent field is "", 0 or <<>>.
InheritedNames == {"constructor", "toString", "valueOf", "hasOwnProperty"}

challenges(challengeType) ==
  CASE challengeType = "mouse-pattern" ->
         Some([type |-> "mouse-pattern", timeLimit |-> 10000,
               sequence |-> <<>>, expectedText |-> ""])
    [] challengeType = "click-sequence" ->
         Some([type |-> "click-sequence", timeLimit |-> 15000,
               sequence |-> <<1, 3, 2>>, expectedText |-> ""])
    [] challengeType = "typing-cadence" ->
         Some([type |-> "typing-cadence", timeLimit |-> 10000,
               sequence |-> <<>>, expectedText |-> "I am human"])
    [] challengeType \in InheritedNames ->
         Some([type |-> "", timeLimit |-> 0, sequence |-> <<>>,
               expectedText |-> ""])
    [] OTHER -> None

\* An unknown type falls back to the click sequence.
ChallengeForClickSequence(challengeType) ==
  IF challenges(challengeType) # None THEN challenges(challengeType)[1]
  ELSE challenges("click-sequence")[1]

\* line 310: an unknown type falls back to the mouse pattern.
ChallengeFor(challengeType) ==
  IF challenges(challengeType) # None THEN challenges(challengeType)[1]
  ELSE challenges("mouse-pattern")[1]

ChallengeResponse(challengeType, sid, time) ==
  LET c == ChallengeFor(challengeType)
  IN [type |-> c.type, timeLimit |-> c.timeLimit, sequence |-> c.sequence,
      expectedText |-> c.expectedText, sessionId |-> sid,
      challengeId |-> time, timestamp |-> time]


(***************************************************************************)
(* State.                                                                  *)
(***************************************************************************)
VARIABLES
  now,                    \* Date.now()
  \* useBehaviorTracking.ts
  behaviorData,           \* useState, line 21
  lastMouseTime,          \* lastMousePos.current.timestamp, line 29
  sessionStart,           \* sessionStart.current, line 30
  keyPressStart,          \* keyPressStart.current, line 31 (0: no entry)
  \* CompleteCaptchaSystem.tsx (part_000:16-23)
  captchaState,
  apiResults,
  challenge,
  finalResult,
  autoValidationEnabled,
  collectionProgress,     \* in units of 1/75 percent
  sessionId,              \* apiService.sessionId (part_005:67)
  calls,                  \* the validateBehavior invocations not yet finished
  \* ChallengeSystem.tsx, while mounted (lines 34-41)
  widget,
  \* History, read by the properties only.
  nTicks,                 \* clock advances so far
  nMouse,                 \* mousemove events so far
  nClicks,                \* clicks outside the widget and the result views
  nKeyDowns,              \* keydown events so far
  validations,            \* validateBehavior invocations since the last reset
  trigger,                \* what made the last invocation: "auto" or "manual"
  issued,                 \* the challenges the server has issued
  submitted,              \* the last response given to onChallengeComplete
  \* BehaviorTestWithAPI.tsx (lines 10-11)
  apiStatus,
  lastValidation          \* 0: null

vars ==
  <<now, behaviorData, lastMouseTime, sessionStart, keyPressStart,
    captchaState, apiResults, challenge, finalResult, autoValidationEnabled, apiStatus, lastValidation,
    collectionProgress, sessionId, calls, widget,
    nTicks, nMouse, nClicks, nKeyDowns, validations, trigger, issued,
    submitted>>

hookRefs == <<lastMouseTime, sessionStart, keyPressStart>>
history == <<validations, trigger, issued, submitted>>
events == <<nMouse, nClicks, nKeyDowns>>

Init ==
  /\ now = Epoch
  /\ behaviorData = EmptyBehaviorData
  /\ lastMouseTime = 0
  /\ sessionStart = Epoch
  /\ keyPressStart = [k \in Keys |-> 0]
  /\ captchaState = "collecting"
  /\ apiResults = None
  /\ challenge = None
  /\ finalResult = None
  /\ autoValidationEnabled = TRUE
  /\ apiStatus = "idle"
  /\ lastValidation = 0
  /\ collectionProgress = 0
  /\ sessionId = 1
  /\ calls = <<>>
  /\ widget = None
  /\ nTicks = 0
  /\ nMouse = 0
  /\ nClicks = 0
  /\ nKeyDowns = 0
  /\ validations = 0
  /\ trigger = "none"
  /\ issued = <<>>
  /\ submitted = None

(***************************************************************************)
(* CompleteCaptchaSystem.tsx: validateBehavior and the auto-validation     *)
(* effect.                                                                 *)
(***************************************************************************)
TotalInteractions(bd) ==
  Len(bd.mouseMovements) + Len(bd.clicks) + Len(bd.keystrokes)

\* `progress` of lines 102-106, times 75.
Progress(bd) ==
  IntMin(100 * 75,
         Len(bd.mouseMovements) * 300
         + IntMin(bd.sessionDuration, MinSessionDuration)
         + TotalInteractions(bd) * 300)

\* The condition of lines 111-116 with the duration compared by >.
ThresholdsMetStrict(bd) ==
  /\ Len(bd.mouseMovements) >= MinMouseMovements
  /\ bd.sessionDuration > MinSessionDuration
  /\ TotalInteractions(bd) >= MinTotalInteractions
  /\ Progress(bd) >= 100 * 75

\* The condition of lines 111-116.
ThresholdsMet(bd) ==
  /\ Len(bd.mouseMovements) >= MinMouseMovements
  /\ bd.sessionDuration >= MinSessionDuration
  /\ TotalInteractions(bd) >= MinTotalInteractions
  /\ Progress(bd) >= 100 * 75

\* ChallengeSystem is rendered in state 'challenge' only (lines 286-293).
Rendered(w, state) == IF state = "challenge" THEN w ELSE None

NewCall(bd) ==
  [stage |-> "validate_sent", behaviorData |-> bd, sessionId |-> sessionId,
   ml |-> None, response |-> None, challengeType |-> "",
   challengeResponse |-> None]

\* Lines 36-40, up to the first await: the state becomes 'analyzing' and
\* the request carries the behaviorData of the render that made the callback.
validateBehavior(bd, why) ==
  /\ captchaState' = "analyzing"
  /\ calls' = Append(calls, NewCall(bd))
  /\ validations' = validations + 1
  /\ trigger' = why

NoValidation == UNCHANGED <<captchaState, calls, validations, trigger>>

\* Line 92 without its test of captchaState.
EffectActiveAnyState(auto) == auto

\* Line 92: the effect does nothing unless auto-validation is on and the
\* state is 'collecting'.
EffectActive(auto) == auto /\ captchaState = "collecting"

\* The effect of lines 91-119, run after a render in which behaviorData or
\* autoValidationEnabled changed and captchaState did not.
AutoValidationEffect(bd, auto) ==
  IF EffectActive(auto)
  THEN /\ collectionProgress' = Progress(bd)
       /\ IF ThresholdsMet(bd) THEN validateBehavior(bd, "auto")
          ELSE NoValidation
  ELSE /\ UNCHANGED collectionProgress
       /\ NoValidation

(***************************************************************************)
(* useBehaviorTracking.ts: the document listeners.                         *)
(***************************************************************************)
\* handleClick, lines 68-79.
handleClick(bd) ==
  [bd EXCEPT !.clicks = Append(SliceLast(@, ClickCap - 1), [timestamp |-> now])]

Tick(ms) ==
  /\ nTicks < MaxTicks
  /\ now' = now + ms
  /\ nTicks' = nTicks + 1
  /\ UNCHANGED <<behaviorData, hookRefs, captchaState, apiResults, challenge,
                 finalResult, autoValidationEnabled, apiStatus, lastValidation, collectionProgress,
                 sessionId, calls, widget, events, history>>

\* handleMouseMove, lines 40-65: the behaviorData it stores.
handleMouseMove(bd, v) ==
  LET timeDiff == now - lastMouseTime
      velocity == IF timeDiff > 0 THEN v ELSE 0
  IN [bd EXCEPT
        !.mouseMovements =
           Append(SliceLast(@, MotionCap - 1),
                  [timestamp |-> now, velocity |-> velocity]),
        !.sessionDuration = now - sessionStart]

\* handleMouseMove, lines 40-65.
MouseMove(v) ==
  LET bd == handleMouseMove(behaviorData, v)
  IN /\ nMouse < MaxMouse
     /\ nMouse' = nMouse + 1
     /\ behaviorData' = bd
     /\ lastMouseTime' = now
     /\ AutoValidationEffect(bd, autoValidationEnabled)
     /\ widget' = Rendered(widget, captchaState')
     /\ UNCHANGED <<nClicks, nKeyDowns, now, sessionStart, keyPressStart, apiResults, challenge,
                    finalResult, autoValidationEnabled, apiStatus, lastValidation, sessionId, nTicks,
                    issued, submitted>>

\* A click on the page outside any button.
Click ==
  LET bd == handleClick(behaviorData)
  IN /\ nClicks < MaxClicks
     /\ nClicks' = nClicks + 1
     /\ behaviorData' = bd
     /\ AutoValidationEffect(bd, autoValidationEnabled)
     /\ widget' = Rendered(widget, captchaState')
     /\ UNCHANGED <<nMouse, nKeyDowns, now, hookRefs, apiResults, challenge, finalResult,
                    autoValidationEnabled, apiStatus, lastValidation, sessionId, nTicks, issued,
                    submitted>>

\* handleKeyDown, lines 82-84: a ref changes, nothing renders.
KeyDown(k) ==
  /\ nKeyDowns < MaxKeyDowns
  /\ nKeyDowns' = nKeyDowns + 1
  /\ keyPressStart' = [keyPressStart EXCEPT ![k] = now]
  /\ UNCHANGED <<nMouse, nClicks, now, behaviorData, lastMouseTime, sessionStart, captchaState,
                 apiResults, challenge, finalResult, autoValidationEnabled, apiStatus, lastValidation,
                 collectionProgress, sessionId, calls, widget, nTicks,
                 history>>

\* handleKeyUp, lines 86-104: the behaviorData it stores.
handleKeyUp(bd, k) ==
  LET startTime == keyPressStart[k]
  IN [bd EXCEPT
        !.keystrokes =
           Append(SliceLast(@, KeyCap - 1),
                  [key |-> k, timestamp |-> startTime,
                   duration |-> now - startTime])]

\* line 88 without its test
HasKeyDownAlways(startTime) == TRUE

\* line 88: `if (startTime)`, the key has an entry in keyPressStart.
HasKeyDown(startTime) == startTime # 0

\* handleKeyUp, lines 86-104.
KeyUp(k) ==
  LET startTime == keyPressStart[k]
      bd == handleKeyUp(behaviorData, k)
  IN /\ IF HasKeyDown(startTime)
        THEN /\ behaviorData' = bd
             /\ keyPressStart' = [keyPressStart EXCEPT ![k] = 0]
             /\ AutoValidationEffect(bd, autoValidationEnabled)
             /\ widget' = Rendered(widget, captchaState')
        ELSE UNCHANGED <<behaviorData, keyPressStart, collectionProgress,
                         captchaState, calls, validations, trigger, widget>>
     /\ UNCHANGED <<events, now, lastMouseTime, sessionStart, apiResults,
                    challenge, finalResult, autoValidationEnabled, apiStatus, lastValidation, sessionId,
                    nTicks, issued, submitted>>

(***************************************************************************)
(* CompleteCaptchaSystem.tsx: the buttons of the 'collecting' view.        *)
(***************************************************************************)
\* The buttons of the 'collecting' view rendered in every state.
CollectingViewShownAlways == TRUE

\* The 'collecting' view, with both buttons, is rendered in that state only
\* (lines 176-267).
CollectingViewShown == captchaState = "collecting"

\* 'Validate Now', lines 251-265: disabled below 50 percent.
ValidateNow ==
  /\ CollectingViewShown
  /\ collectionProgress >= 50 * 75
  /\ validateBehavior(behaviorData, "manual")
  /\ behaviorData' = handleClick(behaviorData)
  /\ widget' = Rendered(widget, captchaState')
  /\ UNCHANGED <<events, now, hookRefs, apiResults, challenge, finalResult,
                 autoValidationEnabled, apiStatus, lastValidation, collectionProgress, sessionId, nTicks,
                 issued, submitted>>

\* 'Auto-validation: ON/OFF', lines 236-249.
ToggleAutoValidation ==
  LET bd == handleClick(behaviorData)
  IN /\ CollectingViewShown
     /\ nClicks < MaxClicks
     /\ nClicks' = nClicks + 1
     /\ autoValidationEnabled' = ~autoValidationEnabled
     /\ behaviorData' = bd
     /\ AutoValidationEffect(bd, ~autoValidationEnabled)
     /\ widget' = Rendered(widget, captchaState')
     /\ UNCHANGED <<nMouse, nKeyDowns, now, hookRefs, apiResults, challenge, finalResult,
                    apiStatus, lastValidation, sessionId, nTicks, issued,
                    submitted>>


(***************************************************************************)
(* The server handles a request in flight (server.js).                     *)
(***************************************************************************)
\* The buffers as they are when the server scores the request.
LiveBehaviorData(call) == behaviorData

\* The behaviorData of the request body: makeRequest serialises the request
\* when it is called (part_005:85), before validateBehavior's first await,
\* and the handlers of the hook store new arrays, never changing one in
\* place (useBehaviorTracking.ts:58-62, 75-78, 97-100).
RequestBehaviorData(call) == call.behaviorData

ServerValidate(i, ml) ==
  /\ calls[i].stage = "validate_sent"
  /\ calls' = [calls EXCEPT
       ![i].stage = "validate_answered",
       ![i].ml = Some(ml),
       ![i].response =
          Some(ValidateResponse(RequestBehaviorData(calls[i]),
                                calls[i].sessionId, ml))]
  /\ UNCHANGED <<now, behaviorData, hookRefs, captchaState, apiResults,
                 challenge, finalResult, autoValidationEnabled, apiStatus, lastValidation,
                 collectionProgress, sessionId, widget, nTicks, events,
                 history>>

\* The challenge carries its position in `issued` so that the properties
\* can tell two challenges with the same challengeId apart.
ServerChallenge(i) ==
  /\ calls[i].stage = "challenge_sent"
  /\ issued' = Append(issued, [sessionId |-> calls[i].sessionId,
                                  outstanding |-> TRUE])
  /\ calls' = [calls EXCEPT
       ![i].stage = "challenge_answered",
       ![i].challengeResponse =
          Some([serial |-> Len(issued) + 1] @@
               ChallengeResponse(calls[i].challengeType, calls[i].sessionId,
                                 now))]
  /\ UNCHANGED <<now, behaviorData, hookRefs, captchaState, apiResults,
                 challenge, finalResult, autoValidationEnabled, apiStatus, lastValidation,
                 collectionProgress, sessionId, widget, nTicks, events,
                 validations, trigger, submitted>>

(***************************************************************************)
(* CompleteCaptchaSystem.tsx: validateBehavior after its awaits.           *)
(***************************************************************************)
\* selectChallengeType with the limits included: at most 5 motion samples,
\* at most 2 clicks.
selectChallengeTypeInclusive(result) ==
  IF result.analysis.mouseMovements <= 5 THEN "mouse-pattern"
  ELSE IF result.analysis.clicks <= 2 THEN "click-sequence"
  ELSE "typing-cadence"

\* selectChallengeType, lines 25-34.
selectChallengeType(result) ==
  IF result.analysis.mouseMovements < 5 THEN "mouse-pattern"
  ELSE IF result.analysis.clicks < 2 THEN "click-sequence"
  ELSE "typing-cadence"

\* ChallengeSystem's state when it mounts (ChallengeSystem.tsx:34-41); a
\* mounted ChallengeSystem keeps its state when its props change.
Mounted(w, ch) ==
  IF w # None THEN w
  ELSE Some([timeLeft |-> ch.timeLimit \div 1000,
             timerDue |-> now + TimerIntervalMs,
             startTime |-> now,
             mousePath |-> <<>>,
             clickSequence |-> <<>>,
             typedText |-> "",
             isComplete |-> FALSE])

ErrorResult ==
  [success |-> FALSE, isHuman |-> FALSE, confidence |-> D0,
   challengeRequired |-> FALSE, method |-> "error"]

\* Lines 41-43 and 63-76: the validate request has been answered.
ValidateReturns(i) ==
  LET r == calls[i].response[1]
  IN /\ calls[i].stage = "validate_answered"
     /\ apiResults' = Some(r)
     /\ IF r.success
        THEN IF r.needsChallenge
             THEN \* lines 44-47: the challenge request is sent
                  /\ calls' = [calls EXCEPT
                       ![i].stage = "challenge_sent",
                       ![i].challengeType = selectChallengeType(r)]
                  /\ UNCHANGED <<captchaState, finalResult, widget>>
             ELSE \* lines 63-73: passed without challenge
                  /\ finalResult' =
                       Some([success |-> TRUE, isHuman |-> r.isHuman,
                             confidence |-> r.confidence,
                             challengeRequired |-> FALSE,
                             method |-> "ml_model"])
                  /\ captchaState' = "success"
                  /\ widget' = None
                  /\ calls' = RemoveAt(calls, i)
        ELSE \* lines 74-87
             /\ finalResult' = Some(ErrorResult)
             /\ captchaState' = "failure"
             /\ widget' = None
             /\ calls' = RemoveAt(calls, i)
     /\ UNCHANGED <<now, behaviorData, hookRefs, challenge,
                    autoValidationEnabled, apiStatus, lastValidation, collectionProgress, sessionId,
                    nTicks, events, history>>

\* makeRequest throws (part_005:78-97: fetch rejects before or after the
\* server has handled the request, or the status is not OK) and
\* validateBehavior catches it (lines 77-87).
RequestThrows(i) ==
  /\ calls[i].stage \in {"validate_sent", "validate_waiting",
                         "validate_answered",
                         "challenge_sent", "challenge_answered"}
  /\ finalResult' = Some(ErrorResult)
  /\ captchaState' = "failure"
  /\ widget' = None
  /\ calls' = RemoveAt(calls, i)
  /\ UNCHANGED <<now, behaviorData, hookRefs, apiResults, challenge,
                 autoValidationEnabled, apiStatus, lastValidation, collectionProgress, sessionId, nTicks,
                 events, history>>

\* Lines 49-62: the challenge request has been answered.
ChallengeReturns(i) ==
  LET cr == calls[i].challengeResponse
      r == calls[i].response[1]
  IN /\ calls[i].stage = "challenge_answered"
     /\ IF cr # None
        THEN /\ challenge' = cr
             /\ captchaState' = "challenge"
             /\ widget' = Mounted(widget, cr[1])
             /\ UNCHANGED finalResult
        ELSE /\ finalResult' =
                  Some([success |-> FALSE, isHuman |-> FALSE,
                        confidence |-> r.confidence,
                        challengeRequired |-> TRUE,
                        method |-> "challenge_failed"])
             /\ captchaState' = "failure"
             /\ widget' = None
             /\ UNCHANGED challenge
     /\ calls' = RemoveAt(calls, i)
     /\ UNCHANGED <<now, behaviorData, hookRefs, apiResults,
                    autoValidationEnabled, apiStatus, lastValidation, collectionProgress, sessionId,
                    nTicks, events, history>>

(***************************************************************************)
(* The challenge callbacks of CompleteCaptchaSystem.tsx.                   *)
(***************************************************************************)
\* handleChallengeComplete is memoised with an empty dependency list (line
\* 139), so it is the callback of the first render for ever, and the
\* validateChallengeResponse it calls is the first render's, which closed
\* over the first render's `challenge`: the initial state null (line 20).
ClosureChallenge == None

\* validateChallengeResponse, lines 141-152; `challenge.type` on null throws.
validateChallengeResponse(ch, response) ==
  IF ch = None THEN "TypeError"
  ELSE IF ch[1].type = "click-sequence" THEN
         (IF response.correct THEN "true" ELSE "false")
  ELSE IF ch[1].type = "typing-cadence" THEN
         (IF response.correct THEN "true" ELSE "false")
  ELSE IF ch[1].type = "mouse-pattern" THEN
         (IF response.pathLength > 20 THEN "true" ELSE "false")
  ELSE "false"

Resolve(serial) == [issued EXCEPT ![serial].outstanding = FALSE]

\* handleChallengeComplete, lines 121-139, called by ChallengeSystem.
handleChallengeComplete(response) ==
  LET isValidResponse == validateChallengeResponse(ClosureChallenge, response)
  IN /\ IF isValidResponse = "TypeError"
        THEN \* line 137
             /\ captchaState' = "failure"
             /\ UNCHANGED finalResult
        ELSE /\ finalResult' =
                  Some([success |-> isValidResponse = "true",
                        isHuman |-> isValidResponse = "true",
                        confidence |-> IF isValidResponse = "true"
                                       THEN D0_9 ELSE D0_1,
                        challengeRequired |-> TRUE,
                        method |-> "challenge_completion"])
             /\ captchaState' =
                  IF isValidResponse = "true" THEN "success" ELSE "failure"
     /\ widget' = None
     /\ submitted' = Some(response)
     /\ issued' = Resolve(response.serial)

\* handleChallengeTimeout, lines 154-163.
handleChallengeTimeout ==
  /\ finalResult' =
       Some([success |-> FALSE, isHuman |-> FALSE, confidence |-> D0,
             challengeRequired |-> TRUE, method |-> "timeout"])
  /\ captchaState' = "failure"
  /\ widget' = None
  /\ issued' = Resolve(challenge[1].serial)

(***************************************************************************)
(* ChallengeSystem.tsx.                                                    *)
(***************************************************************************)
\* What ChallengeSystem hands to onChallengeComplete, with the time of the
\* call.
Response(kind, correct, pathLength) ==
  [challengeId |-> challenge[1].challengeId, serial |-> challenge[1].serial,
   kind |-> kind, correct |-> correct, pathLength |-> pathLength,
   at |-> now, completionTime |-> now - widget[1].startTime]

\* The interval of lines 44-56.  The k-th call of the callback comes no
\* earlier than k seconds after the mount; it may come later.
\* prev <= 2
TimeIsUpEarly(prev) == prev <= 2

\* line 47: prev <= 1
TimeIsUp(prev) == prev <= 1

TimerTick ==
  /\ widget # None
  /\ now >= widget[1].timerDue
  /\ IF TimeIsUp(widget[1].timeLeft)
     THEN /\ handleChallengeTimeout
          /\ UNCHANGED submitted
     ELSE /\ widget' = Some([widget[1] EXCEPT
                               !.timeLeft = @ - 1,
                               !.timerDue = @ + TimerIntervalMs])
          /\ UNCHANGED <<captchaState, finalResult, issued, submitted>>
  /\ UNCHANGED <<now, behaviorData, hookRefs, apiResults, challenge,
                 autoValidationEnabled, apiStatus, lastValidation, collectionProgress, sessionId, calls,
                 nTicks, events, validations, trigger>>

\* The members of newSequence are those of expected, in any order.
SequenceMatchesUnordered(newSequence, expected) ==
  {newSequence[idx] : idx \in 1..Len(newSequence)}
    = {expected[idx] : idx \in 1..Len(expected)}

\* line 160 of ChallengeSystem.tsx
SequenceMatches(newSequence, expected) ==
  \A idx \in 1..Len(newSequence) : newSequence[idx] = expected[idx]

\* handleButtonClick, lines 155-177, then the document's handleClick.
ButtonClick(buttonNumber) ==
  LET newSequence == Append(widget[1].clickSequence, buttonNumber)
  IN /\ widget # None
     /\ challenge[1].type = "click-sequence"
     /\ ~widget[1].isComplete
     /\ IF Len(newSequence) = Len(challenge[1].sequence)
        THEN handleChallengeComplete(
               Response("click-sequence",
                        SequenceMatches(newSequence, challenge[1].sequence),
                        0))
        ELSE /\ widget' = Some([widget[1] EXCEPT !.clickSequence = newSequence])
             /\ UNCHANGED <<captchaState, finalResult, issued, submitted>>
     /\ behaviorData' = handleClick(behaviorData)
     /\ UNCHANGED <<events, now, hookRefs, apiResults, challenge,
                    autoValidationEnabled, apiStatus, lastValidation, collectionProgress, sessionId,
                    calls, nTicks, validations, trigger>>

\* handleInputChange, lines 218-238.
InputChange(value) ==
  /\ widget # None
  /\ challenge[1].type = "typing-cadence"
  /\ ~widget[1].isComplete
  /\ value # widget[1].typedText
  /\ IF value = challenge[1].expectedText
     THEN handleChallengeComplete(Response("typing-cadence", TRUE, 0))
     ELSE /\ widget' = Some([widget[1] EXCEPT !.typedText = value])
          /\ UNCHANGED <<captchaState, finalResult, issued, submitted>>
  /\ UNCHANGED <<now, behaviorData, hookRefs, apiResults, challenge,
                 autoValidationEnabled, apiStatus, lastValidation, collectionProgress, sessionId, calls,
                 nTicks, events, validations, trigger>>

\* startDrawing, lines 62-73.  MousePatternChallenge is a component defined
\* inside ChallengeSystem's body (line 59), so every render of ChallengeSystem
\* mounts a new one whose isDrawing is false (line 60): the render that
\* setMousePath causes drops the isDrawing this handler set, draw (line 76)
\* returns at once and stopDrawing (line 109) never completes the challenge.
StartDrawing ==
  /\ widget # None
  /\ challenge[1].type = "mouse-pattern"
  /\ widget[1].mousePath # <<now>>
  /\ widget' = Some([widget[1] EXCEPT !.mousePath = <<now>>])
  /\ UNCHANGED <<now, behaviorData, hookRefs, captchaState, apiResults,
                 challenge, finalResult, autoValidationEnabled, apiStatus, lastValidation,
                 collectionProgress, sessionId, calls, nTicks, events,
                 history>>

(***************************************************************************)
(* resetSystem, part_000:165-173 ('Start New Session' / 'Try Again'), with *)
(* reset() of useBehaviorTracking.ts:189-198 and resetSession of           *)
(* part_005:129-131, then the document's handleClick and the effect.       *)
(***************************************************************************)
ResultViewShown == captchaState \in {"success", "failure"}

resetSystem ==
  LET bd == handleClick(EmptyBehaviorData)
  IN /\ ResultViewShown
     /\ sessionId - 1 < MaxResets
     /\ behaviorData' = bd
     /\ sessionStart' = now
     /\ apiResults' = None
     /\ challenge' = None
     /\ finalResult' = None
     /\ captchaState' = "collecting"
     /\ collectionProgress' =
          IF autoValidationEnabled THEN Progress(bd) ELSE 0
     /\ sessionId' = sessionId + 1
     /\ widget' = None
     /\ validations' = 0
     /\ trigger' = "none"
     /\ UNCHANGED <<events, now, lastMouseTime, keyPressStart, autoValidationEnabled, apiStatus, lastValidation,
                    calls, nTicks, issued, submitted>>

(***************************************************************************)
(* The specification.                                                      *)
(***************************************************************************)
Next ==
  \/ \E ms \in TickSizes : Tick(ms)
  \/ \E v \in Velocities : MouseMove(v)
  \/ Click
  \/ \E k \in Keys : KeyDown(k)
  \/ \E k \in Keys : KeyUp(k)
  \/ ValidateNow
  \/ ToggleAutoValidation
  \/ \E i \in 1..Len(calls) : \E ml \in MLOutcomes : ServerValidate(i, ml)
  \/ \E i \in 1..Len(calls) : ServerChallenge(i)
  \/ \E i \in 1..Len(calls) : ValidateReturns(i)
  \/ \E i \in 1..Len(calls) : RequestThrows(i)
  \/ \E i \in 1..Len(calls) : ChallengeReturns(i)
  \/ TimerTick
  \/ \E b \in Buttons : ButtonClick(b)
  \/ \E t \in Texts : InputChange(t)
  \/ StartDrawing
  \/ resetSystem

Spec == Init /\ [][Next]_vars

(***************************************************************************)
(* The validation server by itself.  Any client can POST a request, so the *)
(* request in flight is an input: its behaviorData is drawn from Telemetry *)
(* and the classifier's answer from MLVerdicts.  The page is idle.         *)
(***************************************************************************)
\* Motion samples with the given velocities, one millisecond apart.
Motion(vs) ==
  [i \in 1..Len(vs) |-> [timestamp |-> Epoch + i, velocity |-> vs[i]]]

\* Velocities that take each branch of lines 68-73: static, slow and steady,
\* slow and varied, varied at the 0.5 limit, between the limits, fast and
\* steady, fast and varied, and 15 samples of average 1.0 whose variation
\* (8/14) exceeds 0.5.
VelocityLists ==
  {<<>>, <<0, 0>>, <<2, 2>>, <<1, 2>>, <<1, 1, 2>>, <<5, 5>>, <<4, 6>>,
   <<12, 12>>, <<11, 13>>,
   <<1, 1, 1, 1, 1, 1, 1, 1, 1, 0, 2, 0, 2, 1, 1>>}

ClickSamples(n) == [i \in 1..n |-> [timestamp |-> Epoch + i]]
ClickCounts == {0, 1, 3, 6}

KeySamples(ds) ==
  [i \in 1..Len(ds) |-> [key |-> "a", timestamp |-> Epoch + i, duration |-> ds[i]]]
DurationLists == {<<>>, <<10>>, <<100>>, <<400>>, <<600>>}

SessionDurations == {500, 1000, 3000, 6000}

Telemetry ==
  {[mouseMovements |-> Motion(vs), clicks |-> ClickSamples(c),
    keystrokes |-> KeySamples(ds), sessionDuration |-> sd] :
     vs \in VelocityLists, c \in ClickCounts, ds \in DurationLists,
     sd \in SessionDurations}

\* Answers of the classifier: those of MLOutcomes, and predictions whose
\* is_human disagrees with risk_score < 0.6, whose risk_score is exactly
\* 0.7, whose risk_score or confidence is out of [0, 1], or is no number.
MLVerdicts ==
  MLOutcomes \cup
  {MLPrediction(FALSE, D0_55, D0_1),
   MLPrediction(FALSE, D0_7, D0_9),
   MLPrediction(FALSE, D1_5, D0_9),
   MLPrediction(TRUE, D0_2, D1_5),
   MLPrediction(TRUE, None, D0_9),
   MLPrediction(TRUE, D0_2, None)}

\* The challengeType of a challenge request: the three kinds the page asks
\* for, a string that is none of them, and the name of an inherited
\* property.
RequestedTypes ==
  {"mouse-pattern", "click-sequence", "typing-cadence", "shape-match",
   "constructor"}

ValidateRequest(bd) == NewCall(bd)
ChallengeRequest(challengeType) ==
  [NewCall(EmptyBehaviorData) EXCEPT
     !.stage = "challenge_sent", !.challengeType = challengeType]

InitServer ==
  /\ now = Epoch
  /\ behaviorData = EmptyBehaviorData
  /\ lastMouseTime = 0
  /\ sessionStart = Epoch
  /\ keyPressStart = [k \in Keys |-> 0]
  /\ captchaState = "collecting"
  /\ apiResults = None
  /\ challenge = None
  /\ finalResult = None
  /\ autoValidationEnabled = TRUE
  /\ apiStatus = "idle"
  /\ lastValidation = 0
  /\ collectionProgress = 0
  /\ sessionId = 1
  /\ calls \in {<<ValidateRequest(bd)>> : bd \in Telemetry}
               \cup {<<ChallengeRequest(t)>> : t \in RequestedTypes}
  /\ widget = None
  /\ nTicks = 0
  /\ nMouse = 0
  /\ nClicks = 0
  /\ nKeyDowns = 0
  /\ validations = 0
  /\ trigger = "none"
  /\ issued = <<>>
  /\ submitted = None

\* POST /api/captcha/validate of part_007:82-130.
BasicServerValidate(i) ==
  /\ calls[i].stage = "validate_sent"
  /\ calls' = [calls EXCEPT
       ![i].stage = "validate_answered",
       ![i].response =
          Some(BasicValidateResponse(RequestBehaviorData(calls[i]),
                                     calls[i].sessionId))]
  /\ UNCHANGED <<now, behaviorData, hookRefs, captchaState, apiResults,
                 challenge, finalResult, autoValidationEnabled, apiStatus, lastValidation,
                 collectionProgress, sessionId, widget, nTicks, events,
                 history>>

NextServer ==
  \/ \E i \in 1..Len(calls) : \E ml \in MLVerdicts : ServerValidate(i, ml)
  \/ \E i \in 1..Len(calls) : BasicServerValidate(i)
  \/ \E i \in 1..Len(calls) : ServerChallenge(i)

SpecServer == InitServer /\ [][NextServer]_vars

(***************************************************************************)
(* A session up to the end of 'analyzing', with a classifier that may      *)
(* never answer: callMLService awaits fetch (part_006:40) with no timeout  *)
(* and no abort signal, so the handler stays at line 150.  The server      *)
(* handles a request it has received and the page resumes validateBehavior *)
(* when its response has arrived (weak fairness); that a request fails is  *)
(* never certain.                                                          *)
(***************************************************************************)
ClassifierHangs(i) ==
  /\ calls[i].stage = "validate_sent"
  /\ calls' = [calls EXCEPT ![i].stage = "validate_waiting"]
  /\ UNCHANGED <<now, behaviorData, hookRefs, captchaState, apiResults,
                 challenge, finalResult, autoValidationEnabled, apiStatus, lastValidation,
                 collectionProgress, sessionId, widget, nTicks, events,
                 history>>

ServerAnswersValidate ==
  \E i \in 1..Len(calls) : \E ml \in MLOutcomes : ServerValidate(i, ml)
ServerAnswersChallenge == \E i \in 1..Len(calls) : ServerChallenge(i)
PageResumes ==
  \E i \in 1..Len(calls) : ValidateReturns(i) \/ ChallengeReturns(i)

NextHang ==
  \/ \E ms \in TickSizes : Tick(ms)
  \/ \E v \in Velocities : MouseMove(v)
  \/ ValidateNow
  \/ ServerAnswersValidate
  \/ \E i \in 1..Len(calls) : ClassifierHangs(i)
  \/ ServerAnswersChallenge
  \/ PageResumes
  \/ \E i \in 1..Len(calls) : RequestThrows(i)

SpecHang ==
  /\ Init
  /\ [][NextHang]_vars
  /\ WF_vars(ServerAnswersValidate)
  /\ WF_vars(ServerAnswersChallenge)
  /\ WF_vars(PageResumes)

(***************************************************************************)
(* The telemetry hook by itself, as a component that only shows or sends   *)
(* the telemetry mounts it (BehaviorTestWithAPI.tsx:7).  Events arrive at  *)
(* different instants: pointer moves first, then clicks, then key presses, *)
(* each buffer receiving ExtraSamples samples more than it holds.          *)
(***************************************************************************)
\* A listener has run at the present instant.
EventAtNow ==
  \/ lastMouseTime = now
  \/ /\ behaviorData.clicks # <<>>
     /\ behaviorData.clicks[Len(behaviorData.clicks)].timestamp = now
  \/ \E k \in Keys : keyPressStart[k] = now
  \/ /\ behaviorData.keystrokes # <<>>
     /\ behaviorData.keystrokes[Len(behaviorData.keystrokes)].timestamp
          + behaviorData.keystrokes[Len(behaviorData.keystrokes)].duration = now

Elapse ==
  /\ EventAtNow
  /\ now' = now + 1
  /\ UNCHANGED <<behaviorData, hookRefs, captchaState, apiResults, challenge,
                 finalResult, autoValidationEnabled, apiStatus, lastValidation, collectionProgress,
                 sessionId, calls, widget, nTicks, events, history>>

HookIdle ==
  UNCHANGED <<now, sessionStart, captchaState, apiResults, challenge,
              finalResult, autoValidationEnabled, apiStatus, lastValidation, collectionProgress,
              sessionId, calls, widget, nTicks, history>>

\* handleMouseMove, lines 40-65.
HookMouseMove(v) ==
  /\ ~EventAtNow
  /\ nMouse < MotionCap + ExtraSamples
  /\ nClicks = 0
  /\ nKeyDowns = 0
  /\ nMouse' = nMouse + 1
  /\ behaviorData' = handleMouseMove(behaviorData, v)
  /\ lastMouseTime' = now
  /\ HookIdle
  /\ UNCHANGED <<keyPressStart, nClicks, nKeyDowns>>

\* handleClick, lines 68-79.
HookClick ==
  /\ ~EventAtNow
  /\ nClicks < ClickCap + ExtraSamples
  /\ nKeyDowns = 0
  /\ nClicks' = nClicks + 1
  /\ behaviorData' = handleClick(behaviorData)
  /\ HookIdle
  /\ UNCHANGED <<lastMouseTime, keyPressStart, nMouse, nKeyDowns>>

\* handleKeyDown, lines 82-84, of a key that is up.
HookKeyDown(k) ==
  /\ ~EventAtNow
  /\ nKeyDowns < KeyCap + ExtraSamples
  /\ keyPressStart[k] = 0
  /\ nKeyDowns' = nKeyDowns + 1
  /\ keyPressStart' = [keyPressStart EXCEPT ![k] = now]
  /\ HookIdle
  /\ UNCHANGED <<behaviorData, lastMouseTime, nMouse, nClicks>>

\* handleKeyUp, lines 86-104, of a key that is down.
HookKeyUp(k) ==
  /\ ~EventAtNow
  /\ keyPressStart[k] # 0
  /\ behaviorData' = handleKeyUp(behaviorData, k)
  /\ keyPressStart' = [keyPressStart EXCEPT ![k] = 0]
  /\ HookIdle
  /\ UNCHANGED <<lastMouseTime, events>>

NextBuffers ==
  \/ Elapse
  \/ \E v \in Velocities : HookMouseMove(v)
  \/ HookClick
  \/ \E k \in Keys : HookKeyDown(k)
  \/ \E k \in Keys : HookKeyUp(k)

SpecBuffers == Init /\ [][NextBuffers]_vars

(***************************************************************************)
(* A session from the moment its challenge is shown.  The session has sent *)
(* its telemetry with 'Validate Now', the assessment asked for a           *)
(* challenge, the server issued the kind selectChallengeType chose and     *)
(* ChallengeSystem has just mounted.  The clock advances by the timer      *)
(* interval; the interval callback of ChallengeSystem.tsx:45-53 runs when  *)
(* it is due or up to MaxLate intervals late, never early.                 *)
(***************************************************************************)
\* Telemetry for which each kind of challenge is selected: 4 motion samples
\* and a click; 7 motion samples; 7 motion samples and 2 clicks.
ChallengeTelemetry ==
  {[mouseMovements |-> Motion(<<2, 2, 2, 2>>), clicks |-> ClickSamples(1),
    keystrokes |-> <<>>, sessionDuration |-> ShortTick],
   [mouseMovements |-> Motion(<<2, 2, 2, 2, 2, 2, 2>>), clicks |-> <<>>,
    keystrokes |-> <<>>, sessionDuration |-> ShortTick],
   [mouseMovements |-> Motion(<<2, 2, 2, 2, 2, 2, 2>>),
    clicks |-> ClickSamples(2), keystrokes |-> <<>>,
    sessionDuration |-> ShortTick]}

\* The assessment of a request the classifier scored as a likely bot.
ChallengedAssessment(bd) ==
  ValidateResponse(bd, 1, MLPrediction(FALSE, D0_9, D0_9))

\* part_000:46-51: the challenge received for the assessment and stored.
ShownChallenge(bd, time) ==
  [serial |-> 1] @@
  ChallengeResponse(selectChallengeType(ChallengedAssessment(bd)), 1, time)

InitChallenge ==
  \E bd \in ChallengeTelemetry :
    /\ now = Epoch + ShortTick
    /\ behaviorData = [bd EXCEPT !.clicks = Append(@, [timestamp |-> now])]
    /\ lastMouseTime = Epoch + Len(bd.mouseMovements)
    /\ sessionStart = Epoch
    /\ keyPressStart = [k \in Keys |-> 0]
    /\ captchaState = "challenge"
    /\ apiResults = Some(ChallengedAssessment(bd))
    /\ challenge = Some(ShownChallenge(bd, now))
    /\ finalResult = None
    /\ autoValidationEnabled = TRUE
    /\ apiStatus = "idle"
    /\ lastValidation = 0
    /\ collectionProgress = Progress(bd)
    /\ sessionId = 1
    /\ calls = <<>>
    /\ widget = Some([timeLeft |-> ShownChallenge(bd, now).timeLimit \div 1000,
                      timerDue |-> now + TimerIntervalMs,
                      startTime |-> now,
                      mousePath |-> <<>>,
                      clickSequence |-> <<>>,
                      typedText |-> "",
                      isComplete |-> FALSE])
    /\ nTicks = 1
    /\ nMouse = Len(bd.mouseMovements)
    /\ nClicks = Len(bd.clicks)
    /\ nKeyDowns = 0
    /\ validations = 1
    /\ trigger = "manual"
    /\ issued = <<[sessionId |-> 1, outstanding |-> TRUE]>>
    /\ submitted = None

\* Time passes while the challenge is shown.
IntervalPasses ==
  /\ widget # None
  /\ now < widget[1].timerDue + MaxLate * TimerIntervalMs
  /\ now' = now + TimerIntervalMs
  /\ UNCHANGED <<behaviorData, hookRefs, captchaState, apiResults, challenge,
                 finalResult, autoValidationEnabled, apiStatus, lastValidation, collectionProgress,
                 sessionId, calls, widget, nTicks, events, history>>

NextChallenge ==
  \/ IntervalPasses
  \/ TimerTick
  \/ \E b \in Buttons : ButtonClick(b)
  \/ \E t \in Texts : InputChange(t)
  \/ StartDrawing

SpecChallenge ==
  /\ InitChallenge
  /\ [][NextChallenge]_vars
  /\ WF_vars(IntervalPasses)
  /\ WF_vars(TimerTick)

(***************************************************************************)
(* BehaviorTestWithAPI.tsx: the page that shows the telemetry of the hook  *)
(* and sends it to the server by itself.  The pointer moves, the clock     *)
(* advances, the server answers a request or the request fails.            *)
(***************************************************************************)
\* line 19: 3 seconds
AutoValidateInterval == 3000

\* line 17
TimeSinceLastValidation(last) == IF last # 0 THEN now - last ELSE 9999

\* The effect of lines 14-23, run after a render in which behaviorData or
\* lastValidation changed, and validateBehavior up to its await (lines
\* 25-28); `pending` and `status` are the invocations and the apiStatus
\* the render leaves.
AutoValidate(bd, last, pending, status) ==
  IF /\ Len(bd.mouseMovements) > 5
     /\ TimeSinceLastValidation(last) > AutoValidateInterval
  THEN /\ apiStatus' = "loading"
       /\ calls' = Append(pending, NewCall(bd))
       /\ validations' = validations + 1
       /\ trigger' = "auto"
  ELSE /\ apiStatus' = status
       /\ calls' = pending
       /\ UNCHANGED <<validations, trigger>>

TesterIdle ==
  UNCHANGED <<sessionStart, keyPressStart, captchaState, challenge,
              finalResult, autoValidationEnabled, collectionProgress,
              sessionId, widget, nClicks, nKeyDowns, issued, submitted>>

\* handleMouseMove (useBehaviorTracking.ts:40-65) and the effect.
TesterMouseMove(v) ==
  LET bd == handleMouseMove(behaviorData, v)
  IN /\ nMouse < MaxTesterMouse
     /\ nMouse' = nMouse + 1
     /\ behaviorData' = bd
     /\ lastMouseTime' = now
     /\ AutoValidate(bd, lastValidation, calls, apiStatus)
     /\ TesterIdle
     /\ UNCHANGED <<now, nTicks, apiResults, lastValidation>>

\* More than the 3 seconds pass.
TesterWaits ==
  /\ nTicks < MaxTicks
  /\ nTicks' = nTicks + 1
  /\ now' = now + AutoValidateInterval + 1
  /\ TesterIdle
  /\ UNCHANGED <<behaviorData, lastMouseTime, apiResults, apiStatus,
                 lastValidation, calls, nMouse, validations, trigger>>

\* validateBehavior after its await, lines 29-31, and the effect, which
\* runs because lastValidation changed.
TesterValidated(i) ==
  /\ calls[i].stage = "validate_answered"
  /\ apiResults' = calls[i].response
  /\ lastValidation' = now
  /\ AutoValidate(behaviorData, now, RemoveAt(calls, i), "success")
  /\ TesterIdle
  /\ UNCHANGED <<now, nTicks, behaviorData, lastMouseTime, nMouse>>

\* The request fails (makeRequest throws, part_005:93-96): the catch of
\* lines 32-35.  No dependency of the effect changes.
TesterValidationFails(i) ==
  /\ calls[i].stage = "validate_sent"
  /\ apiStatus' = "error"
  /\ calls' = RemoveAt(calls, i)
  /\ TesterIdle
  /\ UNCHANGED <<now, nTicks, behaviorData, lastMouseTime, nMouse,
                 apiResults, lastValidation, validations, trigger>>

NextTester ==
  \/ Elapse
  \/ TesterWaits
  \/ \E v \in Velocities : TesterMouseMove(v)
  \/ \E i \in 1..Len(calls) : ServerValidate(i, MLError)
  \/ \E i \in 1..Len(calls) : TesterValidated(i)
  \/ \E i \in 1..Len(calls) : TesterValidationFails(i)

SpecTester == Init /\ [][NextTester]_vars

(***************************************************************************)
(* The key listeners of the hook with every order of events: a keydown of  *)
(* a key that is already down (a held key repeats its keydown, and a keyup *)
(* can be missed) and a keyup of a key that has no entry.                  *)
(***************************************************************************)
\* handleKeyDown, lines 82-84.
HookKeyDownAny(k) ==
  /\ nKeyDowns < MaxKeyPresses
  /\ nKeyDowns' = nKeyDowns + 1
  /\ keyPressStart' = [keyPressStart EXCEPT ![k] = now]
  /\ HookIdle
  /\ UNCHANGED <<behaviorData, lastMouseTime, nMouse, nClicks>>

\* handleKeyUp, lines 86-104.
HookKeyUpAny(k) ==
  /\ IF HasKeyDown(keyPressStart[k])
     THEN /\ behaviorData' = handleKeyUp(behaviorData, k)
          /\ keyPressStart' = [keyPressStart EXCEPT ![k] = 0]
     ELSE UNCHANGED <<behaviorData, keyPressStart>>
  /\ HookIdle
  /\ UNCHANGED <<lastMouseTime, events>>

NextKeys ==
  \/ Elapse
  \/ \E k \in Keys : HookKeyDownAny(k)
  \/ \E k \in Keys : HookKeyUpAny(k)

SpecKeys == Init /\ [][NextKeys]_vars

(***************************************************************************)
(* KeystrokeAnalyzer.tsx (src/unnamed/part_003), shown by                  *)
(* IntegratedDemoApp.tsx:207-208 for the keystrokes of the hook.  Its      *)
(* analytics are recomputed from the keystrokes at every render (useMemo,  *)
(* line 39), so they are operators on the buffer.  Times are whole         *)
(* milliseconds; an average sum / n is compared with a limit by            *)
(* sum < limit * n, and a standard deviation by its square.  For the       *)
(* keystrokes of the model a deviation equal to a limit occurs only with a *)
(* whole mean, for which the double arithmetic of lines 85-87 is exact.    *)
(***************************************************************************)
RECURSIVE Sum(_)
Sum(xs) == IF xs = <<>> THEN 0 ELSE Head(xs) + Sum(Tail(xs))

RECURSIVE SumOfSquares(_)
SumOfSquares(xs) ==
  IF xs = <<>> THEN 0 ELSE Head(xs) * Head(xs) + SumOfSquares(Tail(xs))

\* line 65: the durations d with d > 0 && d < 1000.
RECURSIVE dwellTimes(_)
dwellTimes(keystrokes) ==
  IF keystrokes = <<>> THEN <<>>
  ELSE (IF Head(keystrokes).duration > 0 /\ Head(keystrokes).duration < 1000
        THEN <<Head(keystrokes).duration>> ELSE <<>>)
       \o dwellTimes(Tail(keystrokes))

\* lines 71-77: the time from each release to the next press, if it is in
\* [0, 2000).
RECURSIVE flightTimes(_)
flightTimes(keystrokes) ==
  IF Len(keystrokes) < 2 THEN <<>>
  ELSE (IF /\ keystrokes[2].timestamp
                - (keystrokes[1].timestamp + keystrokes[1].duration) >= 0
           /\ keystrokes[2].timestamp
                - (keystrokes[1].timestamp + keystrokes[1].duration) < 2000
        THEN <<keystrokes[2].timestamp
                 - (keystrokes[1].timestamp + keystrokes[1].duration)>>
        ELSE <<>>)
       \o flightTimes(Tail(keystrokes))

\* lines 66-68 and 78-80: the average of xs (0 if xs is empty) is below,
\* or above, the limit.
AverageBelow(xs, limit) ==
  IF Len(xs) > 0 THEN Sum(xs) < limit * Len(xs) ELSE 0 < limit
AverageAbove(xs, limit) ==
  IF Len(xs) > 0 THEN Sum(xs) > limit * Len(xs) ELSE 0 > limit

\* Len(xs)^2 times the variance of line 86.
ScaledVariance(xs) == Len(xs) * SumOfSquares(xs) - Sum(xs) * Sum(xs)

\* lines 83-88: rhythmVariability, the population standard deviation of
\* the flight times (0 for fewer than two), is below, or above, the limit.
RhythmBelow(xs, limit) ==
  IF Len(xs) > 1 THEN ScaledVariance(xs) < limit * limit * Len(xs) * Len(xs)
  ELSE 0 < limit
RhythmAbove(xs, limit) ==
  IF Len(xs) > 1 THEN ScaledVariance(xs) > limit * limit * Len(xs) * Len(xs)
  ELSE 0 > limit

\* keystrokes.length >= 10
EnoughKeystrokesInclusive(n) == n >= 10

\* line 110: keystrokes.length > 10
EnoughKeystrokes(n) == n > 10

\* lines 40-47 and 107-124.
typingPattern(keystrokes) ==
  LET dwell == dwellTimes(keystrokes)
      flight == flightTimes(keystrokes)
  IN IF Len(keystrokes) = 0 THEN "insufficient-data"
     ELSE IF ~EnoughKeystrokes(Len(keystrokes)) THEN "insufficient-data"
     ELSE IF /\ AverageBelow(dwell, 30)
             /\ AverageBelow(flight, 100)
             /\ RhythmBelow(flight, 50) THEN "bot-like"
     ELSE IF \/ AverageAbove(dwell, 200)
             \/ AverageAbove(flight, 500)
             \/ RhythmAbove(flight, 300) THEN "hunt-peck"
     ELSE IF /\ AverageBelow(dwell, 100)
             /\ AverageBelow(flight, 200)
             /\ RhythmBelow(flight, 100) THEN "touch-typing"
     ELSE "hybrid"

\* n keystrokes recorded by the hook, each held for `dwell` ms, the time
\* from a release to the next press being in turn flight - jitter and
\* flight + jitter (a press before the last release if that is negative).
RECURSIVE PressTime(_, _, _, _)
PressTime(i, dwell, flight, jitter) ==
  IF i = 1 THEN Epoch
  ELSE PressTime(i - 1, dwell, flight, jitter) + dwell + flight
       + (IF i % 2 = 0 THEN -jitter ELSE jitter)

Typed(n, dwell, flight, jitter) ==
  [i \in 1..n |-> [key |-> "a",
                   timestamp |-> PressTime(i, dwell, flight, jitter),
                   duration |-> dwell]]

\* Counts about the limit of line 110; dwell, flight and jitter on each
\* side of every limit of lines 115-119.
KeystrokeCounts == {0, 1, 9, 10, 11, 13}
DwellChoices == {29, 30, 99, 100, 200, 201}
FlightChoices == {99, 100, 199, 200, 500, 501}
JitterChoices == {49, 50, 99, 100, 300, 301}

TypedKeystrokes ==
  {Typed(n, d, f, j) :
     n \in KeystrokeCounts, d \in DwellChoices, f \in FlightChoices,
     j \in JitterChoices}

\* The hook after the keystrokes ks were recorded, at the last release.
InitTyping ==
  \E ks \in TypedKeystrokes :
    /\ now = IF ks = <<>> THEN Epoch
             ELSE ks[Len(ks)].timestamp + ks[Len(ks)].duration
    /\ behaviorData = [EmptyBehaviorData EXCEPT !.keystrokes = ks]
    /\ lastMouseTime = 0
    /\ sessionStart = Epoch
    /\ keyPressStart = [k \in Keys |-> 0]
    /\ captchaState = "collecting"
    /\ apiResults = None
    /\ challenge = None
    /\ finalResult = None
    /\ autoValidationEnabled = TRUE
    /\ apiStatus = "idle"
    /\ lastValidation = 0
    /\ collectionProgress = 0
    /\ sessionId = 1
    /\ calls = <<>>
    /\ widget = None
    /\ nTicks = 0
    /\ nMouse = 0
    /\ nClicks = 0
    /\ nKeyDowns = Len(ks)
    /\ validations = 0
    /\ trigger = "none"
    /\ issued = <<>>
    /\ submitted = None

NextTyping ==
  \/ Elapse
  \/ \E k \in Keys : HookKeyDown(k)
  \/ \E k \in Keys : HookKeyUp(k)

SpecTyping == InitTyping /\ [][NextTyping]_vars

(***************************************************************************)
(* Properties.                                                             *)
(***************************************************************************)
Terminal == {"success", "failure"}

\* The response is one the challenge accepts (part_000:141-152).
ValidResponse(r) ==
  \/ r.kind \in {"click-sequence", "typing-cadence"} /\ r.correct
  \/ r.kind = "mouse-pattern" /\ r.pathLength > 20

\* The response is given no later than issuedAt + timeLimitMs.
BeforeExpiry(r, ch) == r.at <= ch.timestamp + ch.timeLimit

\* onChallengeComplete is called in this step.
Submits == submitted' # submitted

\* The three minimum-data thresholds.
MinimumDataMet(bd) ==
  /\ Len(bd.mouseMovements) >= MinMouseMovements
  /\ bd.sessionDuration >= MinSessionDuration
  /\ TotalInteractions(bd) >= MinTotalInteractions

\* C1. Success and Failure are terminal: once captchaState is 'success' or
\* 'failure', no telemetry event, scoring response, challenge completion or
\* timer expiry changes it; the only step that leaves them is resetSystem.
C1_TerminalUntilReset ==
  [][(captchaState \in Terminal /\ captchaState' # captchaState)
       => resetSystem]_vars

\* A completion ended the session in 'failure' and a click recorded later
\* has left it there.
C1_Witness ==
  /\ captchaState = "failure"
  /\ submitted # None
  /\ issued[submitted[1].serial].sessionId = sessionId
  /\ \E i \in DOMAIN behaviorData.clicks :
        behaviorData.clicks[i].timestamp > submitted[1].at

\* C2. In state Challenge a valid response given before expiry moves the
\* session to Success; an invalid response or an expiry moves it to Failure.
C2_ResponseDecides ==
  [][/\ Submits =>
          captchaState' =
            IF ValidResponse(submitted'[1])
               /\ BeforeExpiry(submitted'[1], challenge[1])
            THEN "success" ELSE "failure"
     /\ (captchaState = "challenge" /\ captchaState' # "challenge" /\ ~Submits)
          => captchaState' = "failure"]_vars

\* C3. An assessment with needsChallenge = false moves the session to
\* Success when isHuman is true and to Failure when isHuman is false.
C3_VerdictDecides ==
  (apiResults # None /\ ~apiResults[1].needsChallenge /\ calls = <<>>)
    => captchaState = IF apiResults[1].isHuman THEN "success" ELSE "failure"

\* C4. In state Failure a final result is recorded with success = false and
\* a method tag among timeout, challenge_failed, low_confidence and error.
C4_FailureTagged ==
  captchaState = "failure"
    => /\ finalResult # None
       /\ ~finalResult[1].success
       /\ finalResult[1].method \in
            {"timeout", "challenge_failed", "low_confidence", "error"}

C6_LateResponseExpires ==
  [][(Submits /\ ~BeforeExpiry(submitted'[1], challenge[1]))
       => /\ captchaState' = "failure"
          /\ finalResult' # None
          /\ finalResult'[1].method = "timeout"]_vars

C8_ScoredOncePerSession ==
  /\ validations <= 1
  /\ Len(calls) <= 1
  /\ calls # <<>> => captchaState = "analyzing"
  /\ captchaState \in {"analyzing", "challenge"} => validations = 1

\* After a manual validation, telemetry recorded in Analyzing or Challenge
\* has brought the buffers past the automatic thresholds.
C8_Witness ==
  /\ captchaState \in {"analyzing", "challenge"}
  /\ trigger = "manual"
  /\ autoValidationEnabled
  /\ ThresholdsMet(behaviorData)
  /\ validations = 1

\* C9 as stated. A session in Collecting moves to Analyzing at the telemetry
\* check at which the three thresholds are met, and an automatic move
\* happens with the three thresholds met only.
C9_AutoAtThresholds ==
  /\ captchaState = "collecting" => ~MinimumDataMet(behaviorData)
  /\ \A i \in DOMAIN calls :
        trigger = "auto" => MinimumDataMet(calls[i].behaviorData)

\* C9, with auto-validation enabled. While auto-validation is enabled a
\* session in Collecting moves to Analyzing at the telemetry check at which
\* the three thresholds are met; an automatic move happens with the three
\* thresholds met only.
C9_AutoAtThresholdsWhenEnabled ==
  /\ (captchaState = "collecting" /\ autoValidationEnabled)
       => ~MinimumDataMet(behaviorData)
  /\ \A i \in DOMAIN calls :
        trigger = "auto" => MinimumDataMet(calls[i].behaviorData)

\* The automatic move at exactly 10 motion samples and exactly the minimum
\* session duration.
C9_Witness ==
  /\ captchaState = "analyzing"
  /\ trigger = "auto"
  /\ calls # <<>>
  /\ Len(calls[1].behaviorData.mouseMovements) = MinMouseMovements
  /\ calls[1].behaviorData.sessionDuration = ShortTick

\* C10. The state changes are Collecting->Analyzing, Analyzing->Challenge,
\* Analyzing->Success, Analyzing->Failure, Challenge->Success and
\* Challenge->Failure, and the reset to Collecting by resetSystem.
Transitions ==
  {<<"collecting", "analyzing">>, <<"analyzing", "challenge">>,
   <<"analyzing", "success">>, <<"analyzing", "failure">>,
   <<"challenge", "success">>, <<"challenge", "failure">>}

C10_OnlyStatedTransitions ==
  [][captchaState' # captchaState
       => \/ <<captchaState, captchaState'>> \in Transitions
          \/ resetSystem]_vars

\* After a reset the second session has gone from Collecting through
\* Analyzing to Success.
C10_Witness ==
  /\ sessionId = 2
  /\ captchaState = "success"
  /\ finalResult # None
  /\ trigger = "manual"

(***************************************************************************)
(* Properties of the validation server, read off the answered requests.    *)
(***************************************************************************)
Answered == {i \in DOMAIN calls : calls[i].response # None}

\* a < b for doubles
Below(a, b) == a[1] < b[1] \/ (a[1] = b[1] /\ a[2] < b[2])

\* 0 <= d <= 1
InUnitInterval(d) == d[1] >= 0 /\ d[2] >= 0 /\ ~Below(D1, d)

\* An assessment scored without the classifier.
FallbackScored(a) == a.method # "ml_model"

C12_ChallengeFlagDerived ==
  \A i \in Answered :
     calls[i].response[1].needsChallenge =
       (\/ Below(D0_7, calls[i].response[1].riskScore)
        \/ Below(calls[i].response[1].confidence, D0_4))

\* A classifier verdict with riskScore exactly 0.7 and confidence 0.9 has
\* been returned without a challenge.
C12_Witness ==
  \E i \in Answered :
     /\ calls[i].response[1].method = "ml_model"
     /\ calls[i].response[1].riskScore = D0_7
     /\ calls[i].response[1].confidence = D0_9
     /\ ~calls[i].response[1].needsChallenge

\* C13 as stated. Every assessment the validate endpoint returns has
\* isHuman = (riskScore < 0.6).
C13_HumanFlagDerived ==
  \A i \in Answered :
     calls[i].response[1].isHuman = Below(calls[i].response[1].riskScore, D0_6)

\* C13, for the fallback. Every assessment scored by the fallback has
\* isHuman = (riskScore < 0.6); an assessment with method ml_model carries
\* the is_human the classifier gave.
C13_FallbackHumanFlagDerived ==
  \A i \in Answered :
     /\ FallbackScored(calls[i].response[1])
          => calls[i].response[1].isHuman =
               Below(calls[i].response[1].riskScore, D0_6)
     /\ ~FallbackScored(calls[i].response[1])
          => calls[i].response[1].isHuman = calls[i].ml[1].is_human

\* The fallback has scored exactly 0.6 and reported isHuman = false.
C13_Witness ==
  \E i \in Answered :
     /\ calls[i].response[1].method = "fallback_algorithm"
     /\ calls[i].response[1].riskScore = D0_6
     /\ ~calls[i].response[1].isHuman

\* The verdict carries numbers in [0, 1].
WellFormed(ml) ==
  /\ ml.kind = "prediction"
  /\ ml.risk_score # None
  /\ ml.confidence # None
  /\ InUnitInterval(ml.risk_score)
  /\ InUnitInterval(ml.confidence)

\* C14. A classifier verdict is used (method = ml_model) only when it is
\* well-formed; otherwise the fallback is used, so every assessment returned
\* has riskScore and confidence in [0, 1].
C14_OnlyWellFormedVerdictsUsed ==
  \A i \in Answered :
     /\ calls[i].response[1].method = "ml_model" => WellFormed(calls[i].ml[1])
     /\ InUnitInterval(calls[i].response[1].riskScore)
     /\ InUnitInterval(calls[i].response[1].confidence)

\* C15. For every behaviorData the fallback scorer returns a riskScore in
\* [0, 1] and the derived confidence is in [0, 1].
C15_FallbackScoreInUnitInterval ==
  \A i \in Answered :
     FallbackScored(calls[i].response[1])
       => /\ InUnitInterval(calls[i].response[1].riskScore)
          /\ InUnitInterval(calls[i].response[1].confidence)

\* Every risk-raising adjustment applies (static pointer, six clicks in
\* half a second, a 10 ms key press, a 500 ms session: 0.5 + 0.9) and the
\* score is clamped to 1.
C15_Witness ==
  \E i \in Answered :
     /\ calls[i].response[1].method = "fallback_algorithm"
     /\ calls[i].behaviorData.mouseMovements = Motion(<<0, 0>>)
     /\ Len(calls[i].behaviorData.clicks) = 6
     /\ calls[i].behaviorData.keystrokes = KeySamples(<<10>>)
     /\ calls[i].behaviorData.sessionDuration = 500
     /\ calls[i].response[1].riskScore = D1
     /\ calls[i].response[1].confidence = D1

\* The score of the specification in tenths: 0.5 and the adjustments of the
\* rules, added exactly and clamped.
ExpectedTenths(bd) ==
  LET n == Len(bd.mouseMovements)
      sumV == SumVelocity(bd.mouseMovements)
      sumVar == SumVariation(bd.mouseMovements)
      steps == IF n > 1 THEN n - 1 ELSE 1
      c == Len(bd.clicks)
      sd == bd.sessionDuration
      ms == IF sd > 1000 THEN sd ELSE 1000
      k == Len(bd.keystrokes)
      sumD == SumDuration(bd.keystrokes)
      motion ==
        IF n = 0 THEN 3
        ELSE (IF 10 * sumV > n /\ sumV < 3 * n THEN -1 ELSE 0)
             + (IF sumV > 10 * n \/ sumV = 0 THEN 2 ELSE 0)
             + (IF 2 * sumVar > steps THEN -1 ELSE 0)
             + (IF 10 * sumVar < steps THEN 2 ELSE 0)
      click ==
        IF c = 0 THEN 0
        ELSE (IF 10000 * c > ms /\ 1000 * c < 2 * ms THEN -1 ELSE 0)
             + (IF 1000 * c > 5 * ms THEN 2 ELSE 0)
      key ==
        IF k = 0 THEN 0
        ELSE (IF sumD > 50 * k /\ sumD < 300 * k THEN -1 ELSE 0)
             + (IF sumD < 20 * k \/ sumD > 500 * k THEN 1 ELSE 0)
      session == (IF sd > 5000 THEN -1 ELSE 0) + (IF sd < 1000 THEN 2 ELSE 0)
      total == 5 + motion + click + key + session
  IN IF total < 0 THEN 0 ELSE IF total > 10 THEN 10 ELSE total

\* The double nearest to k / 10.
Tenth(k) ==
  CASE k = 0 -> D0 [] k = 1 -> D0_1 [] k = 2 -> D0_2 [] k = 3 -> D0_3
    [] k = 4 -> D0_4 [] k = 5 -> D0_5 [] k = 6 -> D0_6 [] k = 7 -> D0_7
    [] k = 8 -> D0_8 [] k = 9 -> D0_9 [] k = 10 -> D1

\* |a - b| <= 2^-52
WithinRounding(a, b) ==
  /\ Abs(a[1] - b[1]) <= 1
  /\ Abs((a[1] - b[1]) * Limb + a[2] - b[2]) <= 16

\* The two scenarios of the specification: empty telemetry after 500 ms;
\* 15 motion samples of average velocity 1.0 and variation above 0.5, no
\* clicks or keys, after 6000 ms.
ScenarioA == [EmptyBehaviorData EXCEPT !.sessionDuration = 500]
ScenarioB ==
  [mouseMovements |-> Motion(<<1, 1, 1, 1, 1, 1, 1, 1, 1, 0, 2, 0, 2, 1, 1>>),
   clicks |-> <<>>, keystrokes |-> <<>>, sessionDuration |-> 6000]

\* C16 as stated. The fallback score is clamp[0,1] of 0.5 plus the sum of
\* the adjustments; empty telemetry after 500 ms gives riskScore 1.0,
\* isHuman false, confidence 1.0, needsChallenge true; 15 motion samples of
\* average velocity 1.0 and variation above 0.5 with no clicks or keys after
\* 6000 ms give riskScore 0.2, isHuman true, needsChallenge false.
C16_ScoreIsSumOfAdjustments ==
  \A i \in Answered :
     FallbackScored(calls[i].response[1])
       => /\ calls[i].response[1].riskScore =
               Tenth(ExpectedTenths(calls[i].behaviorData))
          /\ calls[i].behaviorData = ScenarioA
               => /\ calls[i].response[1].riskScore = D1
                  /\ ~calls[i].response[1].isHuman
                  /\ calls[i].response[1].confidence = D1
                  /\ calls[i].response[1].needsChallenge
          /\ calls[i].behaviorData = ScenarioB
               => /\ calls[i].response[1].riskScore = D0_2
                  /\ calls[i].response[1].isHuman
                  /\ ~calls[i].response[1].needsChallenge

\* C16, up to rounding. The fallback score is within 2^-52 of clamp[0,1] of
\* 0.5 plus the sum of the adjustments; the first scenario gives riskScore
\* 1.0, isHuman false, confidence 1.0, needsChallenge true; the second gives
\* a riskScore within 2^-52 of 0.2, isHuman true, needsChallenge false.
C16_ScoreIsSumUpToRounding ==
  \A i \in Answered :
     FallbackScored(calls[i].response[1])
       => /\ WithinRounding(calls[i].response[1].riskScore,
                            Tenth(ExpectedTenths(calls[i].behaviorData)))
          /\ calls[i].behaviorData = ScenarioA
               => /\ calls[i].response[1].riskScore = D1
                  /\ ~calls[i].response[1].isHuman
                  /\ calls[i].response[1].confidence = D1
                  /\ calls[i].response[1].needsChallenge
          /\ calls[i].behaviorData = ScenarioB
               => /\ WithinRounding(calls[i].response[1].riskScore, D0_2)
                  /\ calls[i].response[1].isHuman
                  /\ ~calls[i].response[1].needsChallenge

\* The second scenario has been scored by the fallback: riskScore
\* 0.20000000000000004.
C16_Witness ==
  \E i \in Answered :
     /\ calls[i].response[1].method = "fallback_algorithm"
     /\ calls[i].behaviorData = ScenarioB
     /\ calls[i].response[1].riskScore = <<53687091, 53687094>>
     /\ calls[i].response[1].isHuman
     /\ ~calls[i].response[1].needsChallenge

(***************************************************************************)
(* Properties of the telemetry buffers.                                    *)
(***************************************************************************)
Smaller(a, b) == IF a < b THEN a ELSE b

\* The last n elements of s, in order.
Newest(s, n) ==
  [i \in 1..Smaller(Len(s), n) |-> s[Len(s) - Smaller(Len(s), n) + i]]

\* The buffer `after` is `before` with one sample recorded at its end and,
\* beyond n samples, the oldest dropped.
Recorded(before, after, n) ==
  /\ after # <<>>
  /\ after = Newest(Append(before, after[Len(after)]), n)

\* C17. The motion buffer holds at most 50 samples, the click buffer at most
\* 20 and the key buffer at most 30, as many as were recorded up to that
\* capacity; every event appends its sample and beyond the capacity drops
\* the oldest, so a buffer holds the most recently recorded samples in
\* arrival order.
C17_BuffersKeepNewest ==
  [][/\ Len(behaviorData'.mouseMovements) = Smaller(nMouse', MotionCap)
     /\ Len(behaviorData'.clicks) = Smaller(nClicks', ClickCap)
     /\ Len(behaviorData'.keystrokes) <= Smaller(nKeyDowns', KeyCap)
     /\ nMouse' # nMouse
          => /\ Recorded(behaviorData.mouseMovements,
                         behaviorData'.mouseMovements, MotionCap)
             /\ behaviorData'.mouseMovements[
                  Len(behaviorData'.mouseMovements)].timestamp = now
     /\ nClicks' # nClicks
          => /\ Recorded(behaviorData.clicks, behaviorData'.clicks, ClickCap)
             /\ behaviorData'.clicks[Len(behaviorData'.clicks)].timestamp = now
     /\ (\E k \in Keys : keyPressStart[k] # 0 /\ keyPressStart'[k] = 0)
          => /\ Recorded(behaviorData.keystrokes, behaviorData'.keystrokes,
                         KeyCap)
             /\ behaviorData'.keystrokes[
                  Len(behaviorData'.keystrokes)].timestamp
                  + behaviorData'.keystrokes[
                      Len(behaviorData'.keystrokes)].duration = now
     /\ nMouse' = nMouse
          => behaviorData'.mouseMovements = behaviorData.mouseMovements
     /\ nClicks' = nClicks => behaviorData'.clicks = behaviorData.clicks
     /\ keyPressStart' = keyPressStart
          => behaviorData'.keystrokes = behaviorData.keystrokes]_vars

\* Each buffer has received ExtraSamples samples beyond its capacity, one
\* per millisecond from Epoch on: the motion buffer starts at the sample of
\* Epoch + ExtraSamples, the click buffer at the click ExtraSamples after
\* the first, the key buffer at the key press ExtraSamples after the first.
C17_Witness ==
  /\ nMouse = MotionCap + ExtraSamples
  /\ nClicks = ClickCap + ExtraSamples
  /\ nKeyDowns = KeyCap + ExtraSamples
  /\ Len(behaviorData.mouseMovements) = MotionCap
  /\ behaviorData.mouseMovements[1].timestamp = Epoch + ExtraSamples
  /\ Len(behaviorData.clicks) = ClickCap
  /\ behaviorData.clicks[1].timestamp =
       Epoch + MotionCap + ExtraSamples + ExtraSamples
  /\ Len(behaviorData.keystrokes) = KeyCap
  /\ behaviorData.keystrokes[1].timestamp =
       Epoch + MotionCap + ExtraSamples + ClickCap + ExtraSamples
             + 2 * ExtraSamples

(***************************************************************************)
(* Properties of challenge issuance and of the classifier call.            *)
(***************************************************************************)
\* C18. When challenge issuance fails for a session in Analyzing that needs
\* a challenge, the session moves to Failure and the final result has
\* method = challenge_failed.
C18_IssuanceFailureTagged ==
  (/\ captchaState = "failure"
   /\ apiResults # None
   /\ apiResults[1].needsChallenge
   /\ challenge = None)
    => /\ finalResult # None
       /\ finalResult[1].method = "challenge_failed"

RecognizedTypes == {"mouse-pattern", "click-sequence", "typing-cadence"}

C20_AnalyzingEnds ==
  (captchaState = "analyzing") ~> (captchaState # "analyzing")

\* C20, as a property of single states: while the session is in Analyzing,
\* some step that the server or the page is bound to take is pending, so the
\* session cannot rest in Analyzing.
C20_AnalyzingCanEnd ==
  captchaState = "analyzing"
    => ENABLED (ServerAnswersValidate \/ ServerAnswersChallenge \/ PageResumes)

(***************************************************************************)
(* Properties of the challenge on display.                                 *)
(***************************************************************************)
\* C21. A click-sequence response is submitted when the clicked sequence has
\* the length of the expected one, and it is judged correct if and only if
\* it equals the expected sequence element by element; a sequence that
\* differs sends the session to Failure and none is ever accepted.
C21_SequenceJudgedByEquality ==
  [][\A b \in Buttons :
       ButtonClick(b) =>
         /\ Submits <=> Len(widget[1].clickSequence) + 1
                          = Len(challenge[1].sequence)
         /\ Submits =>
              /\ submitted'[1].kind = "click-sequence"
              /\ submitted'[1].correct
                   = (widget[1].clickSequence \o <<b>> = challenge[1].sequence)
              /\ widget[1].clickSequence \o <<b>> # challenge[1].sequence
                   => captchaState' = "failure"
              /\ captchaState' = "success"
                   => widget[1].clickSequence \o <<b>> = challenge[1].sequence
    ]_vars

\* The sequence 1, 3, 2 has been clicked for the expected sequence 1, 3, 2
\* and submitted as correct; the hook has recorded the click on 'Validate
\* Now' and the three clicks on the buttons.
C21_Witness ==
  /\ submitted # None
  /\ submitted[1].kind = "click-sequence"
  /\ submitted[1].correct
  /\ challenge[1].sequence = <<1, 3, 2>>
  /\ Len(behaviorData.clicks) = 1 + 3

(***************************************************************************)
(* Properties of the telemetry sent for scoring.                           *)
(***************************************************************************)
\* The counts the assessment reports are those of the telemetry bd.
AssessedFrom(a, bd) ==
  /\ a.analysis.mouseMovements = Len(bd.mouseMovements)
  /\ a.analysis.clicks = Len(bd.clicks)
  /\ a.analysis.keystrokes = Len(bd.keystrokes)
  /\ a.analysis.sessionDuration = bd.sessionDuration

\* C22. The telemetry of a scoring request is the value of the buffers at
\* the moment scoring was triggered (the value just stored for an automatic
\* trigger, the value on display for 'Validate Now'); it stays the same
\* while the request is in flight, whatever is recorded meanwhile, and the
\* assessment is computed from it.
C22_SnapshotScored ==
  [][/\ validations' = validations + 1
          => /\ calls' # <<>>
             /\ calls'[Len(calls')].behaviorData =
                  IF trigger' = "auto" THEN behaviorData' ELSE behaviorData
     /\ (validations' = validations /\ calls # <<>> /\ calls' # <<>>)
          => calls'[1].behaviorData = calls[1].behaviorData
     /\ \A i \in DOMAIN calls' :
          calls'[i].response # None
            => AssessedFrom(calls'[i].response[1], calls'[i].behaviorData)
    ]_vars

\* A request has been answered after three more motion samples were
\* recorded while it was in flight.
C22_Witness ==
  \E i \in DOMAIN calls :
     /\ calls[i].response # None
     /\ Len(behaviorData.mouseMovements)
          = Len(calls[i].behaviorData.mouseMovements) + 3
     /\ calls[i].response[1].analysis.mouseMovements
          = Len(calls[i].behaviorData.mouseMovements)

(***************************************************************************)
(* Properties of the countdown.                                            *)
(***************************************************************************)
\* The timeout callback runs in this step.
TimesOut ==
  /\ finalResult' # finalResult
  /\ finalResult' # None
  /\ finalResult'[1].method = "timeout"

\* C23. A session in Challenge eventually reaches Success or Failure; one
\* that ends without a response ends by the timeout; the timeout callback
\* runs at the tick number timeLimit / 1000, moves the session to Failure,
\* and never runs before timeLimit has elapsed since the challenge was
\* shown.
C23_ChallengeEnds ==
  /\ (captchaState = "challenge") ~> (captchaState \in Terminal)
  /\ []((captchaState \in Terminal /\ submitted = None)
          => (finalResult # None /\ finalResult[1].method = "timeout"))
  /\ [][TimesOut =>
          /\ captchaState = "challenge"
          /\ captchaState' = "failure"
          /\ widget[1].timerDue
               = widget[1].startTime + challenge[1].timeLimit
          /\ now >= widget[1].startTime + challenge[1].timeLimit]_vars

\* The click-sequence challenge has timed out, without a response, exactly
\* 15 seconds after it was shown.
C23_Witness ==
  /\ captchaState = "failure"
  /\ submitted = None
  /\ finalResult # None
  /\ finalResult[1].method = "timeout"
  /\ challenge[1].type = "click-sequence"
  /\ now = challenge[1].timestamp + 15000

(***************************************************************************)
(* Properties of the selection of the challenge.                           *)
(***************************************************************************)
\* The kind for the weakest dimension of telemetry with these counts.
KindFor(motionSamples, clickSamples) ==
  CASE motionSamples < 5 -> "mouse-pattern"
    [] motionSamples >= 5 /\ clickSamples < 2 -> "click-sequence"
    [] motionSamples >= 5 /\ clickSamples >= 2 -> "typing-cadence"

\* C24. For an assessment with needsChallenge = true the kind requested is
\* the one for the counts of the telemetry that was assessed: mouse-pattern
\* below 5 motion samples, else click-sequence below 2 clicks, else
\* typing-cadence; the challenge issued, and the one the session enters, is
\* of that kind.
C24_KindByWeakestDimension ==
  /\ \A i \in DOMAIN calls :
        calls[i].stage \in {"challenge_sent", "challenge_answered"}
          => /\ calls[i].response[1].needsChallenge
             /\ calls[i].challengeType =
                  KindFor(Len(calls[i].behaviorData.mouseMovements),
                          Len(calls[i].behaviorData.clicks))
             /\ calls[i].challengeResponse # None
                  => calls[i].challengeResponse[1].type = calls[i].challengeType
  /\ captchaState = "challenge"
       => /\ apiResults # None
          /\ apiResults[1].needsChallenge
          /\ challenge # None
          /\ challenge[1].type =
               KindFor(apiResults[1].analysis.mouseMovements,
                       apiResults[1].analysis.clicks)

\* A session assessed on exactly 5 motion samples and 2 clicks is in
\* Challenge with the typing-cadence challenge.
C24_Witness ==
  /\ captchaState = "challenge"
  /\ apiResults[1].analysis.mouseMovements = 5
  /\ apiResults[1].analysis.clicks = 2
  /\ challenge[1].type = "typing-cadence"

(***************************************************************************)
(* Properties of the typing pattern.                                       *)
(***************************************************************************)
\* The rules of the classification, for the keystrokes ks.
BotLike(ks) ==
  /\ AverageBelow(dwellTimes(ks), 30)
  /\ AverageBelow(flightTimes(ks), 100)
  /\ RhythmBelow(flightTimes(ks), 50)
HuntPeck(ks) ==
  \/ AverageAbove(dwellTimes(ks), 200)
  \/ AverageAbove(flightTimes(ks), 500)
  \/ RhythmAbove(flightTimes(ks), 300)
TouchTyping(ks) ==
  /\ AverageBelow(dwellTimes(ks), 100)
  /\ AverageBelow(flightTimes(ks), 200)
  /\ RhythmBelow(flightTimes(ks), 100)

\* The pattern is the first rule that matches, hybrid if none does.
FirstMatchingRule(pattern, ks) ==
  /\ pattern \in {"bot-like", "hunt-peck", "touch-typing", "hybrid"}
  /\ pattern = "bot-like" <=> BotLike(ks)
  /\ pattern = "hunt-peck" <=> (~BotLike(ks) /\ HuntPeck(ks))
  /\ pattern = "touch-typing"
       <=> (~BotLike(ks) /\ ~HuntPeck(ks) /\ TouchTyping(ks))

\* C25 as stated. Fewer than 10 keystrokes give insufficient-data; 10 or
\* more give the first matching rule of bot-like, hunt-peck, touch-typing,
\* else hybrid, and never insufficient-data.
C25_PatternFromTenKeystrokes ==
  /\ Len(behaviorData.keystrokes) < 10
       => typingPattern(behaviorData.keystrokes) = "insufficient-data"
  /\ Len(behaviorData.keystrokes) >= 10
       => FirstMatchingRule(typingPattern(behaviorData.keystrokes),
                            behaviorData.keystrokes)

\* C25, with the limit of the code. 10 or fewer keystrokes give
\* insufficient-data; more than 10 give the first matching rule of
\* bot-like, hunt-peck, touch-typing, else hybrid, and never
\* insufficient-data.
C25_PatternAboveTenKeystrokes ==
  /\ Len(behaviorData.keystrokes) <= 10
       => typingPattern(behaviorData.keystrokes) = "insufficient-data"
  /\ Len(behaviorData.keystrokes) > 10
       => FirstMatchingRule(typingPattern(behaviorData.keystrokes),
                            behaviorData.keystrokes)

\* The hook has recorded a tenth keystroke, held for 1 ms, and the 10
\* keystrokes, which match the touch-typing rule, are shown as
\* insufficient-data.
C25_Witness ==
  /\ Len(behaviorData.keystrokes) = 10
  /\ behaviorData.keystrokes[10].duration = 1
  /\ ~BotLike(behaviorData.keystrokes)
  /\ ~HuntPeck(behaviorData.keystrokes)
  /\ TouchTyping(behaviorData.keystrokes)
  /\ typingPattern(behaviorData.keystrokes) = "insufficient-data"

(***************************************************************************)
(* Properties of the key samples.                                          *)
(***************************************************************************)
\* C26. A key sample is added only by a key-up of a key whose key-down is
\* recorded and not yet consumed; the sample carries that press time and
\* the duration release time minus press time, which is not negative, and
\* consumes the key-down; a key-down adds no sample, and there are never
\* more samples than key-downs.
C26_SampleOnlyOnMatchedKeyUp ==
  [][/\ behaviorData'.keystrokes # behaviorData.keystrokes
          => \E k \in Keys :
                /\ keyPressStart[k] # 0
                /\ keyPressStart'[k] = 0
                /\ now >= keyPressStart[k]
                /\ behaviorData'.keystrokes =
                     Newest(behaviorData.keystrokes
                              \o <<[key |-> k, timestamp |-> keyPressStart[k],
                                    duration |-> now - keyPressStart[k]]>>,
                            KeyCap)
     /\ nKeyDowns' # nKeyDowns
          => behaviorData'.keystrokes = behaviorData.keystrokes
     /\ Len(behaviorData'.keystrokes) <= nKeyDowns'
    ]_vars

\* A key went down, repeated its keydown 1 ms later and went up after
\* another 1 ms: one sample, of 1 ms from the repeated keydown, and the
\* entry is consumed.
C26_Witness ==
  /\ nKeyDowns = 2
  /\ Len(behaviorData.keystrokes) = 1
  /\ behaviorData.keystrokes[1].timestamp = Epoch + 1
  /\ behaviorData.keystrokes[1].duration = 1
  /\ \A k \in Keys : keyPressStart[k] = 0

(***************************************************************************)
(* Properties of BehaviorTestWithAPI.                                      *)
(***************************************************************************)
\* C27. At most one validateBehavior invocation of BehaviorTestWithAPI is
\* pending at any time.
C27_OnePendingValidation == Len(calls) <= 1

(***************************************************************************)
(* Properties of the method recorded and of the classifier details.        *)
(***************************************************************************)
\* C28. The final result of a session that passed without a challenge
\* records the method of the assessment that passed it: ml_model only if
\* the classifier's verdict was used, fallback_algorithm if the fallback
\* scored.
C28_MethodNamesScorer ==
  [][\A i \in 1..Len(calls) :
       (ValidateReturns(i) /\ captchaState' = "success")
         => finalResult'[1].method = calls[i].response[1].method]_vars

\* C29. A successful validate response carries classifier details exactly
\* when its method is ml_model.
C29_DetailsExactlyForClassifier ==
  \A i \in 1..Len(calls) :
    (calls[i].response # None /\ calls[i].response[1].success)
      => (calls[i].response[1].mlDetails
            <=> calls[i].response[1].method = "ml_model")

(***************************************************************************)
(* Properties of the reset.                                                *)
(***************************************************************************)
\* C30. Every key sample in the key buffer was pressed in the present
\* session: its press timestamp is not earlier than the last reset (the
\* reset sets sessionStart to its instant).
C30_KeySamplesOfThisSession ==
  \A j \in 1..Len(behaviorData.keystrokes) :
    behaviorData.keystrokes[j].timestamp >= sessionStart

=============================================================================
